---- MODULE Spec2Model ----
(***************************************************************************)
(* Retrieval-and-citation engine of the flask chatbot.                     *)
(*                                                                         *)
(*   agent_service.py : search_pdf_from_db, format_context_with_citations, *)
(*                      pdf_retriever_all, extract_citations,              *)
(*                      remove_existing_citations, ask_agent               *)
(*   chroma1.py       : sanitize_name, load_file_with_real_pages,          *)
(*                      create_chroma_with_retry, the ingestion loop       *)
(*                                                                         *)
(* A Python str is a sequence of tokens.  The tokens that the code tests   *)
(* character by character ("\n", " ", "-", "Citations:") are tokens of     *)
(* their own, so startswith, strip, splitlines, split and the regular      *)
(* expression of remove_existing_citations are computed on the sequence    *)
(* the way Python computes them on the characters.                         *)
(***************************************************************************)
EXTENDS Integers, Sequences, FiniteSets, TLC

VARIABLES
    \* ---- search_pdf_from_db (one call) ----
    docs_with_scores,   \* what similarity_search_with_score returned
    k,                  \* the k argument of the call
    docs,               \* local `docs` after the threshold filter and [:k]
    result,             \* the returned {"context", "citations"}
    spc,                \* "call" before the body ran, "return" after
    \* ---- agent_service.py module state ----
    vectorstores,       \* the registry: index names in dict order
    memory,             \* ConversationBufferMemory: the chat messages
    \* ---- one ask_agent call per request ----
    pc,                 \* position of each request inside ask_agent
    question,           \* argument of ask_agent
    style_examples,     \* local style_examples
    steps,              \* result["intermediate_steps"] so far
    output,             \* result["output"]
    citations,          \* local citations (keys of the OrderedDict)
    answer,             \* local answer / the returned value
    calls,              \* external collaborators the call has used
    toolCalls,          \* capability invocations made so far (all requests)
    completed,          \* history: (request, output) in the order the loops returned
    \* ---- chroma1.py (the ingestion script) ----
    disk,               \* files in ./pdfs
    listing,            \* os.listdir(FILES_FOLDER) of the current run
    idx,                \* position of the for loop in listing
    ipc,                \* "loop", "create", "sleep", "done", "crashed"
    chunks,             \* local chunks of the file being ingested
    attempt,            \* create_chroma_with_retry.attempt
    log,                \* history: calls and sleeps of the current create_chroma_with_retry
    store,              \* persisted indexes: persist_dir name -> stored chunks
    created,            \* history: files whose index this run created
    run                 \* how many times the script has been started

searchVars == <<docs_with_scores, k, docs, result, spc>>

agentVars == <<vectorstores, memory, pc, question, style_examples,
               steps, output, citations, answer, calls, toolCalls, completed>>

ingestVars == <<disk, listing, idx, ipc, chunks, attempt, log, store, created, run>>

vars == <<searchVars, agentVars, ingestVars>>

-----------------------------------------------------------------------------
(* Bounds of the model *)

\* chunks held by one index
MaxChunks == 3
\* ask_agent calls the web server handles (they may overlap)
MaxRequests == 2
\* capability invocations the reasoning loop makes, over all requests
MaxToolCalls == 2

\* runs of the ingestion script
MaxRuns == 2

(* Program constants *)

\* chroma1.py:73   max_retries=8
MaxRetries == 8
\* chroma1.py:90   wait_time = 10 * attempt
BaseDelay == 10

\* agent_service.py:86   score < 0.38, in hundredths
Threshold == 38
\* agent_service.py:83   similarity_search_with_score(query, k=12)
FetchK == 12
\* agent_service.py:82   default k of search_pdf_from_db (per-index tools)
DefaultK == 8
\* agent_service.py:163  k of the all-indexes fallback
AllK == 5

-----------------------------------------------------------------------------
(* Tokens and Python str helpers *)

NL   == "\n"
SP   == " "
DASH == "-"
CIT  == "Citations:"

IsSpace(t) == t \in {NL, SP}

Min(a, b) == IF a < b THEN a ELSE b

RECURSIVE LStrip(_)
LStrip(s) ==
    IF s # <<>> /\ IsSpace(Head(s)) THEN LStrip(Tail(s)) ELSE s

RECURSIVE RStrip(_)
RStrip(s) ==
    IF s # <<>> /\ IsSpace(s[Len(s)]) THEN RStrip(SubSeq(s, 1, Len(s) - 1)) ELSE s

\* str.strip()
Strip(s) == RStrip(LStrip(s))

\* sep.join(parts)
RECURSIVE Join(_, _)
Join(sep, parts) ==
    IF parts = <<>> THEN <<>>
    ELSE IF Len(parts) = 1 THEN parts[1]
    ELSE parts[1] \o sep \o Join(sep, Tail(parts))

\* index of the first occurrence of token t in s, 0 when absent
RECURSIVE FirstIndex(_, _, _)
FirstIndex(s, t, from) ==
    IF from > Len(s) THEN 0
    ELSE IF s[from] = t THEN from
    ELSE FirstIndex(s, t, from + 1)

\* str.splitlines(): a final newline opens no further line
RECURSIVE SplitLines(_)
SplitLines(s) ==
    IF s = <<>> THEN <<>>
    ELSE LET i == FirstIndex(s, NL, 1) IN
         IF i = 0 THEN <<s>>
         ELSE <<SubSeq(s, 1, i - 1)>> \o SplitLines(SubSeq(s, i + 1, Len(s)))

\* list(OrderedDict.fromkeys(xs)): first-seen order, no duplicates
RECURSIVE Dedup(_)
Dedup(xs) ==
    IF xs = <<>> THEN <<>>
    ELSE LET rest == Dedup(SubSeq(xs, 1, Len(xs) - 1))
             x    == xs[Len(xs)]
         IN IF \E i \in 1..Len(rest) : rest[i] = x THEN rest ELSE Append(rest, x)

RECURSIVE Flatten(_)
Flatten(ss) == IF ss = <<>> THEN <<>> ELSE Head(ss) \o Flatten(Tail(ss))

-----------------------------------------------------------------------------
(* Documents of the vector indexes *)

DBNames == {"chroma_A", "chroma_B"}

SourceOf(db) == IF db = "chroma_A" THEN "A.pdf" ELSE "B.docx"

\* page metadata: an int (PyPDFLoader, 0-based) or the str "N/A" (chroma1.py:135)
IntPage(n) == [isint |-> TRUE, n |-> n]
NAPage     == [isint |-> FALSE, n |-> 0]

Words == <<"alpha", "beta", "gamma", "delta", "epsilon">>

\* chunk i of index db.  Chunks 0 and 1 share a page (one citation for two
\* chunks), chunk 2 has the "N/A" page; in chroma_B chunk 1 carries no page
\* key at all and its text quotes a citation list.
Chunk(db, i) ==
    [ page_content |->
        IF db = "chroma_B" /\ i = 1
        THEN <<"see", NL, CIT, NL, DASH, SP, "X.pdf", ", Page ", "9">>
        ELSE <<Words[(i % 5) + 1]>>,
      metadata |->
        IF db = "chroma_B" /\ i = 1
        THEN [source |-> SourceOf(db), db_name |-> db, chunk_id |-> i]
        ELSE [source |-> SourceOf(db), db_name |-> db, chunk_id |-> i,
              page |-> IF i % 3 = 2 THEN NAPage ELSE IntPage(i \div 2)] ]

Corpus(db) == {Chunk(db, i) : i \in 0..(MaxChunks - 1)}

Scores == {12, 37, 38, 61}

\* Chroma.similarity_search_with_score(query, k=12): the (at most 12) nearest
\* documents of the index, each once, by ascending distance.  Which documents
\* are near depends on the query: every order and every score is possible.
FetchResults(db) ==
    LET n == Min(FetchK, Cardinality(Corpus(db))) IN
    { s \in [1..n -> Corpus(db) \X Scores] :
        /\ \A i, j \in 1..n : i # j => s[i][1] # s[j][1]
        /\ \A i \in 1..(n - 1) : s[i][2] <= s[i + 1][2] }

-----------------------------------------------------------------------------
(* search_pdf_from_db *)

MetaGet(meta, key, default) == IF key \in DOMAIN meta THEN meta[key] ELSE default

HasIntPage(doc) ==
    "page" \in DOMAIN doc.metadata /\ doc.metadata.page.isint

BelowThresholdMutant(score) == score <= Threshold

\* agent_service.py:86   score < 0.38
BelowThreshold(score) == score < Threshold

RECURSIVE FilterDocs(_)
FilterDocs(ds) ==
    IF ds = <<>> THEN <<>>
    ELSE IF BelowThreshold(Head(ds)[2])
         THEN <<Head(ds)[1]>> \o FilterDocs(Tail(ds))
         ELSE FilterDocs(Tail(ds))

\* docs = [doc for doc, score in docs_with_scores if score < 0.38][:k]
SelectDocs(ds, kk) ==
    LET kept == FilterDocs(ds) IN SubSeq(kept, 1, Min(kk, Len(kept)))

\* page text of the context header: 1-based page, or N/A
PageText(doc) ==
    IF HasIntPage(doc) THEN ToString(doc.metadata.page.n + 1) ELSE "N/A"

CitationOfMutant(doc) ==
    <<MetaGet(doc.metadata, "source", "Unknown"), ", Page ",
      ToString(doc.metadata.page.n)>>

\* agent_service.py:102-103  page = page + 1; f"{source}, Page {page}"
CitationOf(doc) ==
    <<MetaGet(doc.metadata, "source", "Unknown"), ", Page ",
      ToString(doc.metadata.page.n + 1)>>

\* agent_service.py:101  if isinstance(page, int)
Cites(doc) == HasIntPage(doc)

ContextBlock(doc) ==
    <<"DB: ", MetaGet(doc.metadata, "db_name", "UnknownDB"), NL,
      "Source: ", MetaGet(doc.metadata, "source", "Unknown"), ", Page: ",
      PageText(doc), NL>>
    \o doc.page_content

BlockSep == <<NL, NL, DASH, DASH, DASH, NL, NL>>

RECURSIVE CollectCitations(_)
CollectCitations(ds) ==
    IF ds = <<>> THEN <<>>
    ELSE (IF Cites(Head(ds)) THEN <<CitationOf(Head(ds))>> ELSE <<>>)
         \o CollectCitations(Tail(ds))

\* agent_service.py:89
EmptyResult == [context |-> <<>>, citations |-> <<>>]

SearchPdfFromDb(ds, kk) ==
    LET sel == SelectDocs(ds, kk) IN
    IF sel = <<>> THEN EmptyResult
    ELSE [context   |-> Join(BlockSep, [i \in 1..Len(sel) |-> ContextBlock(sel[i])]),
          citations |-> Dedup(CollectCitations(sel))]

-----------------------------------------------------------------------------
(* chroma1.py: the ingestion script *)

\* file names, character by character; the suffix is one token
FileA == <<"a", ".", "PDF">>
FileB == <<"b", " ", "c", ".", "docx">>
FileN == <<"n", ".", "txt">>

InputFiles == {FileA, FileB, FileN}

\* str.lower() of a suffix
Lower(t) == IF t = "PDF" THEN "pdf" ELSE t

\* position of the last "." of a name that starts a suffix, else 0
DotIndex(name) ==
    LET ds == {i \in 2..Len(name) : name[i] = "."} IN
    IF ds = {} THEN 0 ELSE CHOOSE i \in ds : \A j \in ds : j <= i

\* Path(name).suffix.lower(), without the dot
Ext(name) ==
    IF DotIndex(name) = 0 \/ DotIndex(name) = Len(name) THEN ""
    ELSE Lower(name[Len(name)])

\* Path(name).stem
Stem(name) ==
    IF DotIndex(name) = 0 THEN name ELSE SubSeq(name, 1, DotIndex(name) - 1)

\* docx_path.with_suffix(".pdf")
WithPdfSuffix(name) == Stem(name) \o <<".", "pdf">>

\* [a-zA-Z0-9_-]
SafeChars == {"a", "b", "c", "n", "_", "-"}

\* sanitize_name
SanitizeName(name) ==
    [i \in 1..Len(Stem(name)) |->
        IF Stem(name)[i] \in SafeChars THEN Stem(name)[i] ELSE "_"]

\* db_name = f"chroma_{safe_name}"
DbNameOf(name) == <<"chroma_">> \o SanitizeName(name)

AllFiles == InputFiles \cup {WithPdfSuffix(f) : f \in InputFiles}

PersistDirs == {DbNameOf(f) : f \in AllFiles}

\* filename.lower().endswith((".pdf", ".docx"))
Supported(name) == Ext(name) \in {"pdf", "docx"}

\* the page documents PyPDFLoader(...).load() gives for a readable file; the
\* loader numbers its pages from 0
LoadedPages ==
    [i \in 1..2 |-> [page_content |-> <<Words[i]>>, metadata |-> [page |-> IntPage(i - 1)]]]

\* what load_file_with_real_pages can return as documents
Loads == {<<>>, LoadedPages}

\* chroma1.py:120-135  split_documents (a short page is one chunk) and the
\* metadata attached to every chunk
ChunksOf(name, documents) ==
    [i \in 1..Len(documents) |->
        [page_content |-> documents[i].page_content,
         metadata |-> [source |-> name, doc_type |-> Ext(name),
                       db_name |-> DbNameOf(name), chunk_id |-> i - 1,
                       page |-> IF "page" \in DOMAIN documents[i].metadata
                                THEN documents[i].metadata.page ELSE NAPage]]]

\* every order os.listdir may list the files in
DirListings(files) ==
    { s \in [1..Cardinality(files) -> files] :
        \A i, j \in 1..Cardinality(files) : i # j => s[i] # s[j] }

IngestIdle ==
    /\ disk = {}
    /\ listing = <<>>
    /\ idx = 1
    /\ ipc = "done"
    /\ chunks = <<>>
    /\ attempt = 0
    /\ log = <<>>
    /\ store = [d \in PersistDirs |-> <<>>]
    /\ created = <<>>
    /\ run = 0

Current == listing[idx]

AtFile == ipc = "loop" /\ idx <= Len(listing)

\* chroma1.py:101-102  the extension is not .pdf / .docx: continue
SkipUnsupported ==
    /\ AtFile
    /\ ~Supported(Current)
    /\ idx' = idx + 1
    /\ UNCHANGED <<disk, listing, ipc, chunks, attempt, log, store, created, run>>
    /\ UNCHANGED <<searchVars, agentVars>>

\* convert_docx_to_pdf has to convert (no pdf yet) and docx2pdf raises
ConvertFails ==
    /\ AtFile
    /\ Ext(Current) = "docx"
    /\ WithPdfSuffix(Current) \notin disk
    /\ ipc' = "crashed"
    /\ UNCHANGED <<disk, listing, idx, chunks, attempt, log, store, created, run>>
    /\ UNCHANGED <<searchVars, agentVars>>

\* the pdf that load_file_with_real_pages reads: the file, or the converted docx
DiskAfterLoad ==
    IF Ext(Current) = "docx" THEN disk \cup {WithPdfSuffix(Current)} ELSE disk

\* PyPDFLoader(...).load() raises
LoadFails ==
    /\ AtFile
    /\ Supported(Current)
    /\ disk' = DiskAfterLoad
    /\ ipc' = "crashed"
    /\ UNCHANGED <<listing, idx, chunks, attempt, log, store, created, run>>
    /\ UNCHANGED <<searchVars, agentVars>>

\* chroma1.py:113-115  no documents: "Skipped", continue
LoadEmpty ==
    /\ AtFile
    /\ Supported(Current)
    /\ disk' = DiskAfterLoad
    /\ idx' = idx + 1
    /\ UNCHANGED <<listing, ipc, chunks, attempt, log, store, created, run>>
    /\ UNCHANGED <<searchVars, agentVars>>

\* chroma1.py:112-140  pages loaded, chunked and tagged; create_chroma_with_retry
\* is entered
LoadOk ==
    /\ AtFile
    /\ Supported(Current)
    /\ disk' = DiskAfterLoad
    /\ \E documents \in Loads \ {<<>>} : chunks' = ChunksOf(Current, documents)
    /\ attempt' = 0
    /\ log' = <<>>
    /\ ipc' = "create"
    /\ UNCHANGED <<listing, idx, store, created, run>>
    /\ UNCHANGED <<searchVars, agentVars>>

Call(outcome) == [ev |-> "call", outcome |-> outcome, secs |-> 0]
Slept(secs)   == [ev |-> "sleep", outcome |-> "", secs |-> secs]

\* Chroma.from_documents(documents, embedding, persist_directory): opens the
\* collection kept in persist_directory, creating it when there is none, and
\* adds the documents under fresh ids; what the collection held stays
FromDocuments(held, cs, r) ==
    held \o [i \in 1..Len(cs) |-> [doc |-> cs[i], run |-> r]]

\* chroma1.py:77-81, 140-141  the call succeeds: the index is written,
\* "DB created", next file
CreateOk ==
    /\ ipc = "create"
    /\ store' = [store EXCEPT ![DbNameOf(Current)] = FromDocuments(@, chunks, run)]
    /\ log' = Append(log, Call("ok"))
    /\ created' = Append(created, Current)
    /\ idx' = idx + 1
    /\ ipc' = "loop"
    /\ UNCHANGED <<disk, listing, chunks, attempt, run>>
    /\ UNCHANGED <<searchVars, agentVars>>

ExhaustedMutant(a) == a > MaxRetries + 1

\* chroma1.py:87  if attempt > max_retries
Exhausted(a) == a > MaxRetries

WaitTimeMutant(a) == BaseDelay

\* chroma1.py:90  wait_time = 10 * attempt
WaitTime(a) == BaseDelay * a

\* chroma1.py:83-88  a 429 / nocapacity / rate limit error, retries left
CreateOverload ==
    /\ ipc = "create"
    /\ ~Exhausted(attempt + 1)
    /\ attempt' = attempt + 1
    /\ log' = Append(log, Call("overload"))
    /\ ipc' = "sleep"
    /\ UNCHANGED <<disk, listing, idx, chunks, store, created, run>>
    /\ UNCHANGED <<searchVars, agentVars>>

\* chroma1.py:90-93  time.sleep(wait_time); continue
Sleep ==
    /\ ipc = "sleep"
    /\ log' = Append(log, Slept(WaitTime(attempt)))
    /\ ipc' = "create"
    /\ UNCHANGED <<disk, listing, idx, chunks, attempt, store, created, run>>
    /\ UNCHANGED <<searchVars, agentVars>>

\* chroma1.py:86-88  the overload error again, no retry left: raise
CreateOverloadExhausted ==
    /\ ipc = "create"
    /\ Exhausted(attempt + 1)
    /\ attempt' = attempt + 1
    /\ log' = Append(log, Call("overload"))
    /\ ipc' = "crashed"
    /\ UNCHANGED <<disk, listing, idx, chunks, store, created, run>>
    /\ UNCHANGED <<searchVars, agentVars>>

\* chroma1.py:95  any other error: raise
CreateOtherError ==
    /\ ipc = "create"
    /\ log' = Append(log, Call("error"))
    /\ ipc' = "crashed"
    /\ UNCHANGED <<disk, listing, idx, chunks, attempt, store, created, run>>
    /\ UNCHANGED <<searchVars, agentVars>>

\* chroma1.py:143  the loop is over
Finish ==
    /\ ipc = "loop"
    /\ idx > Len(listing)
    /\ ipc' = "done"
    /\ UNCHANGED <<disk, listing, idx, chunks, attempt, log, store, created, run>>
    /\ UNCHANGED <<searchVars, agentVars>>

\* the script is started again on the folder as it is now
RunAgain ==
    /\ ipc \in {"done", "crashed"}
    /\ run < MaxRuns
    /\ run' = run + 1
    /\ listing' \in DirListings(disk)
    /\ idx' = 1
    /\ ipc' = "loop"
    /\ chunks' = <<>>
    /\ attempt' = 0
    /\ log' = <<>>
    /\ created' = <<>>
    /\ UNCHANGED <<disk, store>>
    /\ UNCHANGED <<searchVars, agentVars>>

-----------------------------------------------------------------------------
(* Tool output formatting, the all-indexes fallback, citation extraction *)

Bullet(c) == <<DASH, SP>> \o c

\* "\n\nCitations:\n" + "\n".join(f"- {c}" for c in citations)
CitationBlock(cs) ==
    <<NL, NL, CIT, NL>> \o Join(<<NL>>, [i \in 1..Len(cs) |-> Bullet(cs[i])])

FormatContextWithCitations(res) ==
    LET context == Strip(res.context) IN
    IF context = <<>> THEN <<>>
    ELSE context \o (IF res.citations # <<>> THEN CitationBlock(res.citations) ELSE <<>>)

\* The queries the reasoning loop sends.  The embedding of a query and the
\* index are fixed while serving, so the ranking is a function of (index,
\* query): query q ranks the chunks of an index starting at chunk q.rot, and
\* its q.near nearest chunks are below the threshold.
Queries == { [rot |-> 0, near |-> 2], [rot |-> 2, near |-> 2] }

ScoreAt(q, rank) ==
    IF rank <= q.near THEN (IF rank = 1 THEN 12 ELSE 37)
    ELSE (IF rank = q.near + 1 THEN Threshold ELSE 61)

\* vectorstore.similarity_search_with_score(query, k=12) of a loaded index
Similarity(db, q) ==
    LET n == Min(FetchK, MaxChunks) IN
    [r \in 1..n |-> <<Chunk(db, (r - 1 + q.rot) % MaxChunks), ScoreAt(q, r)>>]

\* make_db_tool(db_name, vectorstore)._tool
DbTool(db, q) == FormatContextWithCitations(SearchPdfFromDb(Similarity(db, q), DefaultK))

RECURSIVE AllBlocks(_, _)
AllBlocks(vs, q) ==
    IF vs = <<>> THEN <<>>
    ELSE LET res == SearchPdfFromDb(Similarity(Head(vs), q), AllK) IN
         (IF res.context = <<>> THEN <<>>
          ELSE << <<"=== ", Head(vs), " ===", NL>> \o res.context >>)
         \o AllBlocks(Tail(vs), q)

RECURSIVE AllCitations(_, _)
AllCitations(vs, q) ==
    IF vs = <<>> THEN <<>>
    ELSE LET res == SearchPdfFromDb(Similarity(Head(vs), q), AllK) IN
         (IF res.context = <<>> THEN <<>> ELSE res.citations)
         \o AllCitations(Tail(vs), q)

\* pdf_retriever_all
PdfRetrieverAll(vs, q) ==
    LET blocks == AllBlocks(vs, q)
        cs     == Dedup(AllCitations(vs, q))
    IN IF blocks = <<>> THEN <<>>
       ELSE Join(BlockSep, blocks) \o (IF cs # <<>> THEN CitationBlock(cs) ELSE <<>>)

\* "Page N/A" in c
ContainsPageNA(c) ==
    \E i \in 1..Len(c) :
        \/ c[i] = "Page N/A"
        \/ c[i] = ", Page " /\ i < Len(c) /\ c[i + 1] = "N/A"

RECURSIVE CitationLines(_)
CitationLines(lines) ==
    IF lines = <<>> THEN <<>>
    ELSE LET line == Strip(Head(lines)) IN
         (IF line # <<>> /\ Head(line) = DASH /\ ~ContainsPageNA(Strip(Tail(line)))
          THEN << Strip(Tail(line)) >>
          ELSE <<>>)
         \o CitationLines(Tail(lines))

\* extract_citations
ExtractCitations(text) ==
    LET i == FirstIndex(text, CIT, 1) IN
    IF i = 0 THEN <<>>
    ELSE CitationLines(SplitLines(SubSeq(text, i + 1, Len(text))))

\* start positions of a match of  \n\s*Citations\s*:\s*\n
MarkerStarts(s) ==
    { i \in 1..Len(s) :
        /\ s[i] = NL
        /\ \E j \in (i + 1)..Len(s) :
             /\ s[j] = CIT
             /\ \A m \in (i + 1)..(j - 1) : IsSpace(s[m])
             /\ \E e \in (j + 1)..Len(s) :
                  /\ s[e] = NL
                  /\ \A m \in (j + 1)..(e - 1) : IsSpace(s[m]) }

SetMin(S) == CHOOSE x \in S : \A y \in S : x <= y

\* remove_existing_citations
RemoveExistingCitations(text) ==
    IF MarkerStarts(text) = {} THEN Strip(text)
    ELSE Strip(SubSeq(text, 1, SetMin(MarkerStarts(text)) - 1))

Observations(st) == [i \in 1..Len(st) |-> st[i][2]]

RECURSIVE ExtractAll(_)
ExtractAll(obs) ==
    IF obs = <<>> THEN <<>> ELSE ExtractCitations(Head(obs)) \o ExtractAll(Tail(obs))

CollectFromStepsMutant(st) == ExtractAll(Observations(st))

\* agent_service.py:302-305  citations over the intermediate steps
CollectFromSteps(st) == Dedup(ExtractAll(Observations(st)))

\* agent_service.py:308-309
AppendCitations(ans, cs) == IF cs # <<>> THEN ans \o CitationBlock(cs) ELSE ans

-----------------------------------------------------------------------------
(* The registry and ask_agent *)

\* entries of ./chroma_dbs: sub-folders named chroma_*, another folder, a file
BaseEntries ==
    { [name |-> "chroma_A", isdir |-> TRUE,  prefixed |-> TRUE],
      [name |-> "chroma_B", isdir |-> TRUE,  prefixed |-> TRUE],
      [name |-> "uploads",  isdir |-> TRUE,  prefixed |-> FALSE],
      [name |-> "chroma_log.txt", isdir |-> FALSE, prefixed |-> TRUE] }

\* every order base.iterdir() may list a set of entries in
Listings(es) ==
    { s \in [1..Cardinality(es) -> es] : \A i, j \in 1..Cardinality(es) : i # j => s[i] # s[j] }

RECURSIVE LoadedNames(_)
LoadedNames(entries) ==
    IF entries = <<>> THEN <<>>
    ELSE (IF Head(entries).isdir /\ Head(entries).prefixed
          THEN <<Head(entries).name>> ELSE <<>>)
         \o LoadedNames(Tail(entries))

\* load_all_chroma_dbs
LoadAllChromaDbs(exists, entries) == IF ~exists THEN <<>> ELSE LoadedNames(entries)

Registries ==
    { LoadAllChromaDbs(ex, l) : ex \in BOOLEAN, l \in UNION {Listings(es) : es \in SUBSET BaseEntries} }

Requests == 1..MaxRequests

\* the question of request r; the code only passes it on
QuestionOf(r) == <<"question ", ToString(r)>>

EmptyKBMessage == <<"Knowledge base is empty (no Chroma DBs found).">>

\* documents of ./chroma_style_db, as similarity_search(query, k=5) returns them
StyleDocs == << <<"style">> >>

\* retrieve_style_examples
RetrieveStyleExamples(q) ==
    Join(<<NL, NL>>, [i \in 1..Len(StyleDocs) |-> <<"Example ", ToString(i), ":", NL>> \o StyleDocs[i]])

FakeCitation == <<"Fake.pdf", ", Page ", "7">>

\* final answers of the reasoning loop (the output parser strips them)
Outputs ==
    { <<"answer">>,
      <<"answer", NL, NL, CIT, NL>> \o Bullet(FakeCitation),
      <<CIT, NL>> \o Bullet(FakeCitation) }

\* observation the executor records when the loop's text cannot be parsed
ParseErrorObservation == <<"Invalid or incomplete response">>

Human(text) == [type |-> "human", content |-> text]
AI(text)    == [type |-> "ai", content |-> text]

\* no request has arrived, nothing was remembered
NoRequests ==
    /\ memory = <<>>
    /\ pc = [r \in Requests |-> "new"]
    /\ question = [r \in Requests |-> <<>>]
    /\ style_examples = [r \in Requests |-> <<>>]
    /\ steps = [r \in Requests |-> <<>>]
    /\ output = [r \in Requests |-> <<>>]
    /\ citations = [r \in Requests |-> <<>>]
    /\ answer = [r \in Requests |-> <<>>]
    /\ calls = [r \in Requests |-> {}]
    /\ toolCalls = 0
    /\ completed = <<>>

AgentIdle == vectorstores = <<>> /\ NoRequests

SearchIdle ==
    /\ docs_with_scores = <<>>
    /\ k = DefaultK
    /\ spc = "call"
    /\ docs = <<>>
    /\ result = EmptyResult

\* agent_service.py:62  vectorstores = load_all_chroma_dbs(CHROMA_BASE_DIR)
AgentInit == vectorstores \in Registries /\ NoRequests /\ SearchIdle /\ IngestIdle

\* requests enter ask_agent in the order they are numbered
NextToArrive(r) == pc[r] = "new" /\ (IF r = 1 THEN TRUE ELSE pc[r - 1] # "new")

RegistryEmptyMutant == FALSE

\* agent_service.py:288  if not vectorstores
RegistryEmpty == vectorstores = <<>>

\* ask_agent is entered; with an empty registry it returns the fixed message
AskEmpty(r) ==
    /\ pc[r] = "new"
    /\ NextToArrive(r)
    /\ RegistryEmpty
    /\ question' = [question EXCEPT ![r] = QuestionOf(r)]
    /\ answer' = [answer EXCEPT ![r] = EmptyKBMessage]
    /\ pc' = [pc EXCEPT ![r] = "returned"]
    /\ UNCHANGED <<vectorstores, memory, style_examples, steps, output,
                   citations, calls, toolCalls, completed>>
    /\ UNCHANGED searchVars
    /\ UNCHANGED ingestVars

\* ask_agent is entered: style examples are retrieved, the executor is invoked
AskBegin(r) ==
    /\ pc[r] = "new"
    /\ NextToArrive(r)
    /\ ~RegistryEmpty
    /\ question' = [question EXCEPT ![r] = QuestionOf(r)]
    /\ style_examples' = [style_examples EXCEPT ![r] = RetrieveStyleExamples(QuestionOf(r))]
    /\ calls' = [calls EXCEPT ![r] = {"embedding", "style_search", "reasoning_loop"}]
    /\ pc' = [pc EXCEPT ![r] = "loop"]
    /\ UNCHANGED <<vectorstores, memory, steps, output, citations, answer,
                   toolCalls, completed>>
    /\ UNCHANGED searchVars
    /\ UNCHANGED ingestVars

ToolNames == [i \in 1..Len(vectorstores) |-> <<"PDFRetriever_", vectorstores[i]>>]

\* the loop invokes one capability; its text is recorded as an observation
InvokeDbTool(r) ==
    /\ pc[r] = "loop"
    /\ toolCalls < MaxToolCalls
    /\ \E i \in 1..Len(vectorstores), q \in Queries :
         steps' = [steps EXCEPT ![r] =
                     Append(@, <<ToolNames[i], DbTool(vectorstores[i], q)>>)]
    /\ toolCalls' = toolCalls + 1
    /\ UNCHANGED <<vectorstores, memory, pc, question, style_examples,
                   output, citations, answer, calls, completed>>
    /\ UNCHANGED searchVars
    /\ UNCHANGED ingestVars

InvokeAllTool(r) ==
    /\ pc[r] = "loop"
    /\ toolCalls < MaxToolCalls
    /\ \E q \in Queries :
         steps' = [steps EXCEPT ![r] =
                     Append(@, << <<"PDFRetriever_ALL">>, PdfRetrieverAll(vectorstores, q)>>)]
    /\ toolCalls' = toolCalls + 1
    /\ UNCHANGED <<vectorstores, memory, pc, question, style_examples,
                   output, citations, answer, calls, completed>>
    /\ UNCHANGED searchVars
    /\ UNCHANGED ingestVars

\* handle_parsing_errors=True: an unparsable step becomes an observation
ParseError(r) ==
    /\ pc[r] = "loop"
    /\ toolCalls < MaxToolCalls
    /\ steps' = [steps EXCEPT ![r] = Append(@, << <<"_Exception">>, ParseErrorObservation>>)]
    /\ toolCalls' = toolCalls + 1
    /\ UNCHANGED <<vectorstores, memory, pc, question, style_examples,
                   output, citations, answer, calls, completed>>
    /\ UNCHANGED searchVars
    /\ UNCHANGED ingestVars

\* the loop returns its final answer; the executor starts save_context, which
\* appends HumanMessage(input) to the chat messages
LoopReturn(r) ==
    /\ pc[r] = "loop"
    /\ \E o \in Outputs : output' = [output EXCEPT ![r] = o]
    /\ memory' = Append(memory, Human(question[r]))
    /\ completed' = Append(completed, [req |-> r, output |-> output'[r]])
    /\ pc' = [pc EXCEPT ![r] = "saving"]
    /\ UNCHANGED <<vectorstores, question, style_examples, steps,
                   citations, answer, calls, toolCalls>>
    /\ UNCHANGED searchVars
    /\ UNCHANGED ingestVars

\* save_context appends AIMessage(output); invoke returns the result
SaveAI(r) ==
    /\ pc[r] = "saving"
    /\ memory' = Append(memory, AI(output[r]))
    /\ pc' = [pc EXCEPT ![r] = "assemble"]
    /\ UNCHANGED <<vectorstores, question, style_examples, steps, output,
                   citations, answer, calls, toolCalls, completed>>
    /\ UNCHANGED searchVars
    /\ UNCHANGED ingestVars

\* the loop raises (service error, iteration budget): ask_agent raises
LoopFail(r) ==
    /\ pc[r] = "loop"
    /\ pc' = [pc EXCEPT ![r] = "failed"]
    /\ UNCHANGED <<vectorstores, memory, question, style_examples, steps,
                   output, citations, answer, calls, toolCalls, completed>>
    /\ UNCHANGED searchVars
    /\ UNCHANGED ingestVars

\* agent_service.py:298-311
Assemble(r) ==
    /\ pc[r] = "assemble"
    /\ citations' = [citations EXCEPT ![r] = CollectFromSteps(steps[r])]
    /\ answer' = [answer EXCEPT ![r] =
                    AppendCitations(RemoveExistingCitations(output[r]),
                                    CollectFromSteps(steps[r]))]
    /\ pc' = [pc EXCEPT ![r] = "returned"]
    /\ UNCHANGED <<vectorstores, memory, question, style_examples, steps,
                   output, calls, toolCalls, completed>>
    /\ UNCHANGED searchVars
    /\ UNCHANGED ingestVars

\* ask_agent has returned (or raised): its locals are gone
Return(r) ==
    /\ pc[r] \in {"returned", "failed"}
    /\ pc' = [pc EXCEPT ![r] = "done"]
    /\ question' = [question EXCEPT ![r] = <<>>]
    /\ style_examples' = [style_examples EXCEPT ![r] = <<>>]
    /\ steps' = [steps EXCEPT ![r] = <<>>]
    /\ output' = [output EXCEPT ![r] = <<>>]
    /\ citations' = [citations EXCEPT ![r] = <<>>]
    /\ answer' = [answer EXCEPT ![r] = <<>>]
    /\ calls' = [calls EXCEPT ![r] = {}]
    /\ UNCHANGED <<vectorstores, memory, toolCalls, completed>>
    /\ UNCHANGED searchVars
    /\ UNCHANGED ingestVars

\* steps of a call that is under way
Proceed(r) ==
    \/ InvokeDbTool(r)
    \/ InvokeAllTool(r)
    \/ ParseError(r)
    \/ LoopReturn(r)
    \/ SaveAI(r)
    \/ LoopFail(r)
    \/ Assemble(r)
    \/ Return(r)

InFlight(r) == pc[r] \notin {"new", "done"}

\* calls made one after the other
AgentNext ==
    \E r \in Requests :
        \/ (\A o \in Requests : ~InFlight(o)) /\ AskEmpty(r)
        \/ (\A o \in Requests : ~InFlight(o)) /\ AskBegin(r)
        \/ Proceed(r)

SpecAgent == AgentInit /\ [][AgentNext]_vars

\* app.py:62, app.py:99  the server handles each request on a thread of its
\* own, so a call may begin while another is under way
OverlapNext ==
    \E r \in Requests :
        \/ AskEmpty(r)
        \/ AskBegin(r)
        \/ Proceed(r)

SpecOverlap == AgentInit /\ [][OverlapNext]_vars

-----------------------------------------------------------------------------
(* The ingestion script as a whole *)

IngestInit ==
    /\ disk \in SUBSET InputFiles
    /\ listing \in DirListings(disk)
    /\ idx = 1
    /\ ipc = "loop"
    /\ chunks = <<>>
    /\ attempt = 0
    /\ log = <<>>
    /\ store = [d \in PersistDirs |-> <<>>]
    /\ created = <<>>
    /\ run = 1
    /\ AgentIdle
    /\ SearchIdle

IngestNext ==
    \/ SkipUnsupported
    \/ ConvertFails
    \/ LoadFails
    \/ LoadEmpty
    \/ LoadOk
    \/ CreateOk
    \/ CreateOverload
    \/ Sleep
    \/ CreateOverloadExhausted
    \/ CreateOtherError
    \/ Finish
    \/ RunAgain

SpecIngest == IngestInit /\ [][IngestNext]_vars

\* every call and every sleep returns: the script keeps taking steps
FairSpecIngest == SpecIngest /\ WF_vars(IngestNext)

-----------------------------------------------------------------------------
(* One call of search_pdf_from_db, for every index, query outcome and k *)

KValues == {1, 2, AllK, DefaultK}

SearchInit ==
    /\ \E db \in DBNames : docs_with_scores \in FetchResults(db)
    /\ k \in KValues
    /\ spc = "call"
    /\ docs = <<>>
    /\ result = EmptyResult
    /\ AgentIdle
    /\ IngestIdle

Search ==
    /\ spc = "call"
    /\ spc' = "return"
    /\ docs' = SelectDocs(docs_with_scores, k)
    /\ result' = SearchPdfFromDb(docs_with_scores, k)
    /\ UNCHANGED <<docs_with_scores, k>>
    /\ UNCHANGED agentVars
    /\ UNCHANGED ingestVars

SearchNext == Search

SpecSearch == SearchInit /\ [][SearchNext]_vars

-----------------------------------------------------------------------------
(* Properties of search_pdf_from_db, checked under SpecSearch *)

Returned == spc = "return"

\* positions of docs_with_scores whose score passes / fails the threshold
Passing == {j \in 1..Len(docs_with_scores) : docs_with_scores[j][2] < Threshold}
Failing == {j \in 1..Len(docs_with_scores) : docs_with_scores[j][2] >= Threshold}

\* position in docs_with_scores of a document (each document is fetched once)
PosOf(doc) ==
    CHOOSE j \in 1..Len(docs_with_scores) : docs_with_scores[j][1] = doc

Fetched(doc) == \E j \in 1..Len(docs_with_scores) : docs_with_scores[j][1] = doc

\* number of positions i with s[i] = t1 and s[i+1] = t2
CountPairs(s, t1, t2) ==
    Cardinality({i \in 1..(Len(s) - 1) : s[i] = t1 /\ s[i + 1] = t2})

CountToken(s, t) == Cardinality({i \in 1..Len(s) : s[i] = t})

\* C1: a returned result uses only chunks whose score is strictly below 0.38,
\* at most k of them, namely the first passing ones in the order the
\* similarity search returned them; the context holds one block per used
\* chunk and every citation comes from a used chunk.
C1_ThresholdAndTopK ==
    Returned =>
      /\ Len(docs) <= k
      /\ Len(docs) = Min(k, Cardinality(Passing))
      /\ \A i \in 1..Len(docs) : Fetched(docs[i]) /\ PosOf(docs[i]) \in Passing
      /\ \A i, j \in 1..Len(docs) : i < j => PosOf(docs[i]) < PosOf(docs[j])
      /\ \A j \in Failing : \A i \in 1..Len(docs) : docs[i] # docs_with_scores[j][1]
      /\ \A j \in Passing :
           (\A i \in 1..Len(docs) : docs[i] # docs_with_scores[j][1])
             => \A i \in 1..Len(docs) : PosOf(docs[i]) < j
      /\ CountToken(result.context, "DB: ") = Len(docs)
      /\ \A c \in 1..Len(result.citations) :
           \E i \in 1..Len(docs) :
             result.citations[c][1] = docs[i].metadata.source

\* a candidate exactly at the threshold was fetched and dropped, and more
\* candidates passed than k allows
C1_Witness ==
    /\ Returned
    /\ \E j \in Failing : docs_with_scores[j][2] = Threshold
    /\ Cardinality(Passing) > k
    /\ Len(docs) = k

\* C2: no citation has the page value N/A.  A used chunk without an int page
\* gives its context block (headed "Page: N/A") and no citation; a used chunk
\* with int page p gives exactly the citation "{source}, Page {p+1}".
C2_NoNACitation ==
    Returned =>
      /\ \A c \in 1..Len(result.citations) :
           /\ result.citations[c][3] # "N/A"
           /\ \E i \in 1..Len(docs) :
                /\ HasIntPage(docs[i])
                /\ result.citations[c] =
                     <<docs[i].metadata.source, ", Page ",
                       ToString(docs[i].metadata.page.n + 1)>>
      /\ \A i \in 1..Len(docs) :
           HasIntPage(docs[i]) =>
             \E c \in 1..Len(result.citations) :
               result.citations[c] =
                 <<docs[i].metadata.source, ", Page ",
                   ToString(docs[i].metadata.page.n + 1)>>
      /\ \A c, d \in 1..Len(result.citations) :
           c # d => result.citations[c] # result.citations[d]
      /\ CountPairs(result.context, ", Page: ", "N/A")
           = Cardinality({i \in 1..Len(docs) : ~HasIntPage(docs[i])})
      /\ CountToken(result.context, ", Page: ") = Len(docs)

\* a chunk with the N/A page and a chunk with an int page are both used
C2_Witness ==
    /\ Returned
    /\ \E i \in 1..Len(docs) : ~HasIntPage(docs[i])
    /\ \E i \in 1..Len(docs) : HasIntPage(docs[i])
    /\ result.citations # <<>>

-----------------------------------------------------------------------------
(* Properties of ask_agent, checked under SpecAgent *)

\* position of the first occurrence of x in s (x occurs in s)
FirstPos(s, x) == CHOOSE i \in 1..Len(s) : s[i] = x /\ \A j \in 1..(i - 1) : s[j] # x

Occurs(s, x) == \E i \in 1..Len(s) : s[i] = x

LastIndex(s, t) ==
    IF Occurs(s, t) THEN CHOOSE i \in 1..Len(s) : s[i] = t /\ \A j \in (i + 1)..Len(s) : s[j] # t
    ELSE 0

\* the lines under the last "Citations:" line of an answer
BlockLines(ans) == SplitLines(SubSeq(ans, LastIndex(ans, CIT) + 2, Len(ans)))

\* all citation strings of the observations, in the order they occur
Found(r) == ExtractAll(Observations(steps[r]))

\* C3: the citation block of the assembled answer lists each distinct
\* citation string found in the observations exactly once, in first-seen
\* order across the invocations in the order they occurred.
C3_CitationsDedupFirstSeen ==
    \A r \in Requests :
      (pc[r] = "returned" /\ ~RegistryEmpty) =>
        LET cs == citations[r] IN
        /\ \A a, b \in 1..Len(cs) : a # b => cs[a] # cs[b]
        /\ \A i \in 1..Len(Found(r)) : Occurs(cs, Found(r)[i])
        /\ \A a \in 1..Len(cs) : Occurs(Found(r), cs[a])
        /\ \A a, b \in 1..Len(cs) :
             a < b => FirstPos(Found(r), cs[a]) < FirstPos(Found(r), cs[b])
        /\ cs # <<>> =>
             /\ Len(BlockLines(answer[r])) = Len(cs)
             /\ \A a \in 1..Len(cs) : BlockLines(answer[r])[a] = <<DASH, SP>> \o cs[a]

\* two invocations whose citation lists overlap and each add a citation
C3_Witness ==
    \E r \in Requests :
      /\ pc[r] = "returned"
      /\ Len(steps[r]) = 2
      /\ LET c1 == ExtractCitations(steps[r][1][2])
             c2 == ExtractCitations(steps[r][2][2])
         IN /\ \E i \in 1..Len(c1) : Occurs(c2, c1[i])
            /\ \E i \in 1..Len(c2) : ~Occurs(c1, c2[i])
            /\ Len(c1) >= 2
            /\ Len(citations[r]) = 3
            /\ Len(c1) + Len(c2) > 3

\* C4 as claimed: the returned answer holds "Citations:" at most once, never
\* the block the reasoning loop wrote, and not at all when no citation was
\* recovered from the observations.
C4_SingleCitationBlock ==
    \A r \in Requests :
      (pc[r] = "returned" /\ ~RegistryEmpty) =>
        /\ CountToken(answer[r], CIT) <= 1
        /\ ~Occurs(answer[r], FakeCitation[1])
        /\ citations[r] = <<>> => CountToken(answer[r], CIT) = 0

\* C5: with an empty registry every ask_agent call returns the fixed message,
\* uses neither the reasoning loop nor the style search nor the embedding
\* service, and the conversation memory stays as it was.
C5_EmptyRegistry ==
    vectorstores = <<>> =>
      /\ memory = <<>>
      /\ \A r \in Requests :
           /\ calls[r] = {}
           /\ steps[r] = <<>>
           /\ pc[r] \in {"new", "returned", "done"}
           /\ pc[r] = "returned" => answer[r] = EmptyKBMessage

\* a second question is answered with the fixed message, after a first one was
C5_Witness ==
    /\ vectorstores = <<>>
    /\ pc[1] = "done"
    /\ pc[MaxRequests] = "returned"
    /\ answer[MaxRequests] = EmptyKBMessage

-----------------------------------------------------------------------------
(* Conversation memory, checked under SpecOverlap *)

RECURSIVE Turns(_)
Turns(cs) ==
    IF cs = <<>> THEN <<>>
    ELSE <<Human(QuestionOf(Head(cs).req)), AI(Head(cs).output)>> \o Turns(Tail(cs))

\* C10 as claimed: whenever no call is in the middle of saving, the memory is
\* exactly one (question, output) turn per call whose reasoning loop
\* returned, in the order the loops returned; failed calls leave no trace.
C10_MemoryTurnsInCompletionOrder ==
    (\A r \in Requests : pc[r] # "saving") => memory = Turns(completed)

\* the index a per-index capability searches, from the name in the step
ToolDb(name) == name[2]

IsDbStep(st) == st[1][1] = "PDFRetriever_"

IsAllStep(st) == st[1] = <<"PDFRetriever_ALL">>

\* the step's text is the serialised result of some retrieval, and parsing it
\* back gives that retrieval's citation list
RoundTrips(st) ==
    /\ IsDbStep(st) =>
         \E q \in Queries :
           LET res == SearchPdfFromDb(Similarity(ToolDb(st[1]), q), DefaultK) IN
           /\ st[2] = FormatContextWithCitations(res)
           /\ ExtractCitations(st[2]) = res.citations
    /\ IsAllStep(st) =>
         \E q \in Queries :
           /\ st[2] = PdfRetrieverAll(vectorstores, q)
           /\ ExtractCitations(st[2]) = Dedup(AllCitations(vectorstores, q))

\* every citation string a search of a loaded index can return
RetrieverCitations ==
    UNION { { SearchPdfFromDb(Similarity(vectorstores[i], q), kk).citations[c] :
                c \in 1..Len(SearchPdfFromDb(Similarity(vectorstores[i], q), kk).citations) } :
            i \in 1..Len(vectorstores), q \in Queries, kk \in {DefaultK, AllK} }

\* C11 as claimed: the text of every capability invocation parses back to
\* exactly the citation list of the retrieval result it was made from,
\* whatever the chunk texts contain, and so every citation of the assembled
\* answer is one the Retriever produced.
C11_CitationRoundTrip ==
    \A r \in Requests :
      /\ \A i \in 1..Len(steps[r]) : RoundTrips(steps[r][i])
      /\ pc[r] = "returned" =>
           \A c \in 1..Len(citations[r]) : citations[r][c] \in RetrieverCitations

-----------------------------------------------------------------------------
(* Properties of the ingestion script, checked under SpecIngest *)

CallsWith(outcome) == {i \in 1..Len(log) : log[i] = Call(outcome)}

Calls == {i \in 1..Len(log) : log[i].ev = "call"}

CreateReturned == ipc = "loop" /\ log # <<>> /\ log[Len(log)] = Call("ok")

\* C6: when the creation call failed n times in a row with an overload error
\* and then succeeded, the index was created, and what happened is: failed
\* call, wait base*1, failed call, wait base*2, ..., failed call, wait base*n,
\* successful call.
C6_LinearBackoff ==
    CreateReturned =>
      LET n == Cardinality(CallsWith("overload")) IN
      /\ n <= MaxRetries
      /\ Len(log) = 2 * n + 1
      /\ \A i \in 1..n :
           /\ log[2 * i - 1] = Call("overload")
           /\ log[2 * i] = Slept(BaseDelay * i)
      /\ created # <<>>
      /\ chunks # <<>>
      /\ created[Len(created)] = chunks[1].metadata.source
      /\ LET held == store[DbNameOf(created[Len(created)])] IN
         /\ Len(held) >= Len(chunks)
         /\ \A j \in 1..Len(chunks) :
              held[Len(held) - Len(chunks) + j] = [doc |-> chunks[j], run |-> run]

\* the call succeeded after the last retry the budget allows
C6_Witness ==
    /\ CreateReturned
    /\ Cardinality(CallsWith("overload")) = MaxRetries
    /\ log[Len(log) - 1] = Slept(BaseDelay * MaxRetries)

\* C7: create_chroma_with_retry always comes to an end.  It makes at most
\* max_retries retries (max_retries + 1 calls); an overload error after the
\* last retry is raised, and so is any other error at once.
C7_RetryTerminates ==
    /\ [](Cardinality(Calls) <= MaxRetries + 1)
    /\ [](ipc \in {"create", "sleep"} => Cardinality(CallsWith("overload")) <= MaxRetries)
    /\ []((ipc = "crashed" /\ log # <<>> /\ log[Len(log)] = Call("overload"))
            => Cardinality(CallsWith("overload")) = MaxRetries + 1)
    /\ (ipc \in {"create", "sleep"}) ~> (ipc \notin {"create", "sleep"})

\* the overload error outlasted the budget and was raised
C7_Witness ==
    /\ ipc = "crashed"
    /\ Cardinality(CallsWith("overload")) = MaxRetries + 1
    /\ Cardinality({i \in 1..Len(log) : log[i].ev = "sleep"}) = MaxRetries

\* C8 as claimed: a failure of one document never ends the run while a later
\* supported file of the folder is still waiting to be ingested.
C8_FailureLeavesOthersIngested ==
    ipc = "crashed" => \A i \in (idx + 1)..Len(listing) : ~Supported(listing[i])

\* C9 as claimed: a file's chunks always sit in the index named after it, and
\* once a run has ingested a file, its index holds none of the chunks an
\* earlier run wrote for that file.
C9_ReingestSupersedes ==
    /\ \A d \in PersistDirs : \A i \in 1..Len(store[d]) :
         d = DbNameOf(store[d][i].doc.metadata.source)
    /\ \A c \in 1..Len(created) :
         \A i \in 1..Len(store[DbNameOf(created[c])]) :
           store[DbNameOf(created[c])][i].doc.metadata.source = created[c]
             => store[DbNameOf(created[c])][i].run = run

====
